---- MODULE Spec2Model ----
(***************************************************************************)
(* A model of cover_generator.py: one run of main() -> list_games(), with  *)
(* parse_gamelist, check_file_exists, generate_game_card and               *)
(* combine_cards_to_a4.                                                    *)
(*                                                                         *)
(* Asset references and asset paths are sequences of one-character         *)
(* strings, so that lstrip, basename, lower and the substring test are     *)
(* computed character by character.  Output file names are TLA+ strings    *)
(* built by concatenation, and an output path is the pair (dir, file) that *)
(* os.path.join glued together.  The external tools (convert, composite)   *)
(* are black boxes that succeed or fail.                                   *)
(***************************************************************************)
EXTENDS Integers, Sequences, FiniteSets, TLC

VARIABLES
    pc,              \* position of the run
    argGiven,        \* len(sys.argv) >= 2
    dirExists,       \* os.path.isdir(game_system_path)
    gamelistExists,  \* os.path.isfile(gamelist_path)
    xml,             \* the gamelist.xml document: [wellformed, elems]
    files,           \* asset files on disk (full paths, character sequences)
    toolsOnPath,     \* whether the convert and composite programs can be started
    games,           \* list_games: games
    complete_games,  \* list_games: complete_games
    i,               \* index of the next game of the resolve loop (1-based)
    checked,         \* the check_file_exists calls made so far, in order
    cardsDir,        \* whether os.makedirs(cards_dir) has run
    idx,             \* list_games: idx of the card loop (1-based)
    card_paths,      \* list_games: card_paths
    tmpFiles,        \* scaled intermediate files present on disk
    cardFiles,       \* card files present on disk
    pageFiles,       \* A4 page files present on disk
    toolLog,         \* every subprocess.run call so far: [tool, target, ok, src, out]
    page_count,      \* combine_cards_to_a4: page_count
    page,            \* combine_cards_to_a4: page (0-based loop variable)
    pages,           \* the page commands built so far, in order
    exitCode         \* -1 while running, then the process exit status

vars == <<pc, argGiven, dirExists, gamelistExists, xml, files, toolsOnPath,
          games, complete_games, i, checked, cardsDir, idx, card_paths, tmpFiles,
          cardFiles, pageFiles, toolLog, page_count, page, pages, exitCode>>

-----------------------------------------------------------------------------
(* Bounds of the model *)

MaxGames == 5
MaxIncomplete == 1
MaxLongGames == 10
MaxCards == 19

-----------------------------------------------------------------------------
(* Program constants *)

a4_width == 2480
a4_height == 3508
card_w == 638
card_h == 1012
grid_cols == 3
grid_rows == 3
cards_per_page == 9

-----------------------------------------------------------------------------
(* Strings as sequences of characters *)

Min(a, b) == IF a <= b THEN a ELSE b

UpperCase == <<"A", "B", "C", "D", "E", "F", "G", "H", "I", "J", "K", "L", "M",
               "N", "O", "P", "Q", "R", "S", "T", "U", "V", "W", "X", "Y", "Z">>
LowerCase == <<"a", "b", "c", "d", "e", "f", "g", "h", "i", "j", "k", "l", "m",
               "n", "o", "p", "q", "r", "s", "t", "u", "v", "w", "x", "y", "z">>

\* str.lower() of one ASCII character
LowerChar(c) ==
    IF \E k \in 1..Len(UpperCase) : UpperCase[k] = c
    THEN LowerCase[CHOOSE k \in 1..Len(UpperCase) : UpperCase[k] = c]
    ELSE c

Lower(s) == [k \in 1..Len(s) |-> LowerChar(s[k])]

\* sub in s
Contains(s, sub) ==
    \E k \in 1..(Len(s) - Len(sub) + 1) : SubSeq(s, k, k + Len(sub) - 1) = sub

\* s.lstrip(chars): drop every leading character that belongs to chars
RECURSIVE LStripChars(_, _)
LStripChars(s, chars) ==
    IF s # <<>> /\ Head(s) \in chars THEN LStripChars(Tail(s), chars) ELSE s

\* s.rfind('/') + 1 : the index just after the last slash, 1-based here
LastSlash(s) ==
    IF \E k \in 1..Len(s) : s[k] = "/"
    THEN CHOOSE k \in 1..Len(s) : s[k] = "/" /\ \A j \in (k+1)..Len(s) : s[j] # "/"
    ELSE 0

\* os.path.basename
Basename(s) == SubSeq(s, LastSlash(s) + 1, Len(s))

\* os.path.join of two components
OsPathJoin(a, b) ==
    IF b # <<>> /\ Head(b) = "/" THEN b
    ELSE IF a = <<>> \/ a[Len(a)] = "/" THEN a \o b
    ELSE a \o <<"/">> \o b

\* os.path.isfile
IsFile(fs, p) == p \in fs

thumb == <<"t", "h", "u", "m", "b">>

-----------------------------------------------------------------------------
(* Number formatting *)

DigitChar == <<"0", "1", "2", "3", "4", "5", "6", "7", "8", "9">>

RECURSIVE Decimal(_)
Decimal(n) == IF n < 10 THEN DigitChar[n + 1]
              ELSE Decimal(n \div 10) \o DigitChar[(n % 10) + 1]

RECURSIVE ZeroPad(_, _)
ZeroPad(s, w) == IF Len(s) >= w THEN s ELSE ZeroPad("0" \o s, w)

\* f"{n:0wd}"
FormatD(n, w) == ZeroPad(Decimal(n), w)

\* math.ceil(a / b) for a >= 0, b > 0
Ceil(a, b) == IF a % b = 0 THEN a \div b ELSE (a \div b) + 1

-----------------------------------------------------------------------------
(* check_file_exists *)

check_file_exists(fs, base_path, file_path) ==
    LET clean_path == LStripChars(file_path, {".", "/"})
        full_path  == OsPathJoin(base_path, clean_path)
    IN  [file_path |-> file_path,
         exists    |-> IsFile(fs, full_path),
         full_path |-> full_path]

-----------------------------------------------------------------------------
(* parse_gamelist *)

\* Element.get(key, default) and Element.findtext(tag, default): an element
\* is [attrs, children], two functions defined on the names that are present
Get(elem, key, default) ==
    IF key \in DOMAIN elem.attrs THEN elem.attrs[key] ELSE default

FindText(elem, tag, default) ==
    IF tag \in DOMAIN elem.children THEN elem.children[tag] ELSE default

game_info(elem) ==
    [id        |-> Get(elem, "id", "N/A"),
     image     |-> FindText(elem, "image", <<>>),
     thumbnail |-> FindText(elem, "thumbnail", <<>>),
     marquee   |-> FindText(elem, "marquee", <<>>)]

\* the list parse_gamelist returns: [] on ET.ParseError, else one game_info
\* per <game> element, in document order
parse_gamelist(doc) ==
    IF ~doc.wellformed THEN <<>>
    ELSE [k \in 1..Len(doc.elems) |-> game_info(doc.elems[k])]

-----------------------------------------------------------------------------
(* The body of the resolve loop of list_games, for one game.              *)
(* Result: whether the game is appended to complete_games, the image_path *)
(* it is given, and the check_file_exists calls made, in order.           *)

Excluded(calls) == [retained |-> FALSE, image_path |-> <<>>, calls |-> calls]

\* Mutant of ResolveMarquee: the marquee file is not looked up on disk
ResolveMarquee_NoStat(fs, base, game, image_path, calls) ==
    IF game.marquee = <<>> THEN Excluded(calls)
    ELSE [retained   |-> TRUE,
          image_path |-> image_path,
          calls      |-> Append(calls, check_file_exists(fs, base, game.marquee))]

\* from "if not game['marquee']" to the append
ResolveMarquee(fs, base, game, image_path, calls) ==
    IF game.marquee = <<>> THEN Excluded(calls)
    ELSE LET mq == check_file_exists(fs, base, game.marquee)
         IN  IF mq.exists
             THEN [retained   |-> TRUE,
                   image_path |-> image_path,
                   calls      |-> Append(calls, mq)]
             ELSE Excluded(Append(calls, mq))

\* the "if not thumb_ok" branch: fall back to the image
ResolveImage(fs, base, game, calls) ==
    IF game.image = <<>> THEN Excluded(calls)
    ELSE LET im == check_file_exists(fs, base, game.image)
         IN  IF ~im.exists THEN Excluded(Append(calls, im))
             ELSE ResolveMarquee(fs, base, game, im.full_path, Append(calls, im))

\* thumb_path and 'thumb' in os.path.basename(thumb_path).lower()
ThumbNamed(thumb_path) ==
    thumb_path # <<>> /\ Contains(Lower(Basename(thumb_path)), thumb)

\* Mutant of ResolveGame: the image is preferred to the thumbnail
ResolveGame_ImageFirst(fs, base, game) ==
    LET im == check_file_exists(fs, base, game.image)
        th == check_file_exists(fs, base, game.thumbnail)
    IN  IF game.image # <<>> /\ im.exists
        THEN ResolveMarquee(fs, base, game, im.full_path, <<im>>)
        ELSE IF ThumbNamed(game.thumbnail) /\ th.exists
        THEN ResolveMarquee(fs, base, game, th.full_path, <<th>>)
        ELSE Excluded(<<>>)

ResolveGame(fs, base, game) ==
    IF ThumbNamed(game.thumbnail)
    THEN LET th == check_file_exists(fs, base, game.thumbnail)
         IN  IF th.exists
             THEN ResolveMarquee(fs, base, game, th.full_path, <<th>>)
             ELSE ResolveImage(fs, base, game, <<th>>)
    ELSE ResolveImage(fs, base, game, <<>>)

-----------------------------------------------------------------------------
(* combine_cards_to_a4: geometry and the command of one page *)

\* Mutant of margin_x: divided by the number of columns
margin_x_PerColumn == (a4_width - grid_cols * card_w) \div grid_cols

margin_x == (a4_width - grid_cols * card_w) \div (grid_cols + 1)
margin_y == (a4_height - grid_rows * card_h) \div (grid_rows + 1)

\* Mutant of PageCount: the quotient is rounded down
PageCount_Floor(paths) == Len(paths) \div cards_per_page

PageCount(paths) == Ceil(Len(paths), cards_per_page)

\* card_paths[page*9:(page+1)*9], page 0-based
PageCards(paths, p) ==
    SubSeq(paths, p * cards_per_page + 1,
           Min((p + 1) * cards_per_page, Len(paths)))

\* one  card -geometry +x+y -composite  group; k is the 0-based position
Placement(card, k) ==
    LET col == k % grid_cols
        row == k \div grid_cols
    IN  [card |-> card,
         x    |-> margin_x + col * (card_w + margin_x),
         y    |-> margin_y + row * (card_h + margin_y)]

\* the convert command of page p (0-based): canvas size, the placements in
\* order, and the output path
PageCommand(paths, system_name, p) ==
    LET page_cards == PageCards(paths, p)
    IN  [size   |-> <<a4_width, a4_height>>,
         places |-> [k \in 1..Len(page_cards) |-> Placement(page_cards[k], k - 1)],
         out    |-> [dir  |-> paths[1].dir,
                     file |-> system_name \o "_" \o FormatD(p + 1, 2) \o ".png"]]

\* Mutant of CardPath: the index starts at 0
CardPath_ZeroBased(k) ==
    [dir |-> "cards", file |-> "card_" \o FormatD(k - 1, 4) \o ".png"]

\* card_filename, card_path of the card loop
CardPath(k) == [dir |-> "cards", file |-> "card_" \o FormatD(k, 4) \o ".png"]

\* output_path + ".tmp.png"
TempPath(output_path) ==
    [dir |-> output_path.dir, file |-> output_path.file \o ".tmp.png"]

-----------------------------------------------------------------------------
(* The inputs of a run *)

\* sys.argv[1], and basename(abspath(sys.argv[1])) as a file-name string
game_system_path == <<"g">>
system_name == "g"

Ref_thumb     == <<".", "/", "t", "h", "u", "m", "b">>
Ref_Thumb     == <<".", "/", "T", "h", "u", "m", "b">>
Ref_thumbs_a  == <<".", "/", "t", "h", "u", "m", "b", "s", "/", "a">>
Ref_up_thumb  == <<".", ".", "/", "t", "h", "u", "m", "b">>
Ref_a         == <<".", "/", "a">>
Ref_dot_a     == <<".", "a">>
Ref_root_a    == <<"/", "a">>
Ref_m         == <<".", "/", "m">>
Ref_up_m      == <<".", ".", "/", "m">>

File_thumb    == <<"g", "/", "t", "h", "u", "m", "b">>
File_Thumb    == <<"g", "/", "T", "h", "u", "m", "b">>
File_thumbs_a == <<"g", "/", "t", "h", "u", "m", "b", "s", "/", "a">>
File_a        == <<"g", "/", "a">>
File_m        == <<"g", "/", "m">>

AllFiles == {File_thumb, File_Thumb, File_thumbs_a, File_a, File_m}

\* a child element of <game>: missing, or present with a text
NoChild == [present |-> FALSE, text |-> <<>>]
Child(text) == [present |-> TRUE, text |-> text]

ThumbnailChildren ==
    {NoChild} \cup {Child(t) : t \in {<<>>, Ref_thumb, Ref_Thumb, Ref_thumbs_a,
                                       Ref_up_thumb, Ref_a}}
ImageChildren   == {NoChild} \cup {Child(t) : t \in {Ref_a, Ref_dot_a, Ref_root_a}}
MarqueeChildren == {NoChild} \cup {Child(t) : t \in {<<>>, Ref_m, Ref_up_m}}

\* a <game id=...> element with the given children
GameElem(id, th, im, mq) ==
    LET c == [thumbnail |-> th, image |-> im, marquee |-> mq]
    IN  [attrs    |-> [k \in {"id"} |-> id],
         children |-> [t \in {t \in DOMAIN c : c[t].present} |-> c[t].text]]

\* the k-th element of a long catalog: complete (the even ones through a
\* thumbnail, the odd ones through the image) unless k is in missing, and
\* then without marquee
LongElem(k, missing) ==
    GameElem(Decimal(k),
             IF k % 2 = 0 THEN Child(Ref_thumb) ELSE NoChild,
             Child(Ref_a),
             IF k \in missing THEN NoChild ELSE Child(Ref_m))

Input(arg, dir, gl, wf, elems, fs, tools) ==
    [argGiven |-> arg, dirExists |-> dir, gamelistExists |-> gl,
     xml |-> [wellformed |-> wf, elems |-> elems], files |-> fs,
     toolsOnPath |-> tools]

\* one game, every combination of references and of files on disk
RichInputs ==
    {Input(TRUE, TRUE, TRUE, TRUE, <<GameElem("1", th, im, mq)>>, fs, TRUE) :
        th \in ThumbnailChildren, im \in ImageChildren,
        mq \in MarqueeChildren, fs \in SUBSET AllFiles}

\* 0..MaxGames games, at most MaxIncomplete of them without marquee
LongInputs ==
    UNION {{Input(TRUE, TRUE, TRUE, TRUE, [k \in 1..n |-> LongElem(k, missing)],
                  {File_thumb, File_a, File_m}, TRUE) :
              missing \in {m \in SUBSET (1..n) : Cardinality(m) <= MaxIncomplete}} :
           n \in 0..MaxGames}

\* 1..MaxLongGames games, at most MaxIncomplete of them without marquee, on
\* a machine where convert and composite are not installed
NoToolsInputs ==
    UNION {{Input(TRUE, TRUE, TRUE, TRUE, [k \in 1..n |-> LongElem(k, missing)],
                  {File_thumb, File_a, File_m}, FALSE) :
              missing \in {m \in SUBSET (1..n) : Cardinality(m) <= MaxIncomplete}} :
           n \in 1..MaxLongGames}

\* no argument, no folder, no gamelist.xml, a malformed gamelist.xml
FatalInputs ==
    {Input(arg, dir, gl, wf, <<LongElem(1, {})>>, AllFiles, TRUE) :
        arg \in BOOLEAN, dir \in BOOLEAN, gl \in BOOLEAN, wf \in BOOLEAN}

Inputs == RichInputs \cup LongInputs \cup NoToolsInputs \cup FatalInputs

-----------------------------------------------------------------------------
(* The run *)

Init ==
    /\ \E in \in Inputs :
          /\ argGiven = in.argGiven
          /\ dirExists = in.dirExists
          /\ gamelistExists = in.gamelistExists
          /\ xml = in.xml
          /\ files = in.files
          /\ toolsOnPath = in.toolsOnPath
    /\ pc = "main"
    /\ games = <<>>
    /\ complete_games = <<>>
    /\ i = 1
    /\ checked = <<>>
    /\ cardsDir = FALSE
    /\ idx = 1
    /\ card_paths = <<>>
    /\ tmpFiles = {}
    /\ cardFiles = {}
    /\ pageFiles = {}
    /\ toolLog = <<>>
    /\ page_count = 0
    /\ page = 0
    /\ pages = <<>>
    /\ exitCode = -1

inputVars == <<argGiven, dirExists, gamelistExists, xml, files, toolsOnPath>>
resolveVars == <<games, complete_games, i, checked>>
cardVars == <<cardsDir, idx, card_paths, tmpFiles, cardFiles, toolLog>>
pageVars == <<pageFiles, page_count, page, pages>>

\* sys.exit(1)
Exit1 == pc' = "exit" /\ exitCode' = 1

\* the outcomes a subprocess.run(check=True) call can have: it returns
\* (TRUE) or raises (FALSE), each call on its own; when the program is not
\* installed every call raises
Outcomes == IF toolsOnPath THEN BOOLEAN ELSE {FALSE}

\* main(): the usage check
Main ==
    /\ pc = "main"
    /\ IF ~argGiven THEN Exit1 ELSE pc' = "check_dir" /\ UNCHANGED exitCode
    /\ UNCHANGED <<inputVars, resolveVars, cardVars, pageVars>>

\* list_games: "if not os.path.isdir(game_system_path)"
CheckDir ==
    /\ pc = "check_dir"
    /\ IF ~dirExists THEN Exit1 ELSE pc' = "check_gamelist" /\ UNCHANGED exitCode
    /\ UNCHANGED <<inputVars, resolveVars, cardVars, pageVars>>

\* list_games: "if not os.path.isfile(gamelist_path)"
CheckGamelist ==
    /\ pc = "check_gamelist"
    /\ IF ~gamelistExists THEN Exit1 ELSE pc' = "parse" /\ UNCHANGED exitCode
    /\ UNCHANGED <<inputVars, resolveVars, cardVars, pageVars>>

\* Mutant of ParseGames: an empty list of games does not stop the run
ParseGames_NoEmptyCheck ==
    /\ pc = "parse"
    /\ games' = parse_gamelist(xml)
    /\ pc' = "resolve"
    /\ UNCHANGED <<exitCode, inputVars, complete_games, i, checked, cardVars, pageVars>>

\* list_games: games = parse_gamelist(...); "if not games"
ParseGames ==
    /\ pc = "parse"
    /\ games' = parse_gamelist(xml)
    /\ IF games' = <<>> THEN Exit1 ELSE pc' = "resolve" /\ UNCHANGED exitCode
    /\ UNCHANGED <<inputVars, complete_games, i, checked, cardVars, pageVars>>

\* list_games: one iteration of "for game in games"
ResolveStep ==
    /\ pc = "resolve"
    /\ i <= Len(games)
    /\ LET r == ResolveGame(files, game_system_path, games[i])
           g == [id         |-> games[i].id,
                 image      |-> games[i].image,
                 thumbnail  |-> games[i].thumbnail,
                 marquee    |-> games[i].marquee,
                 image_path |-> r.image_path]
       IN  /\ checked' = checked \o r.calls
           /\ IF r.retained
              THEN /\ games' = [games EXCEPT ![i] = g]
                   /\ complete_games' = Append(complete_games, g)
              ELSE UNCHANGED <<games, complete_games>>
    /\ i' = i + 1
    /\ UNCHANGED <<pc, exitCode, inputVars, cardVars, pageVars>>

\* list_games: the loop is over; os.makedirs(cards_dir, exist_ok=True)
\* creates the directory, or raises (cards is a file, the folder is
\* read-only): nothing catches that, the run ends with exit status 1
MakeCardsDir ==
    /\ pc = "resolve"
    /\ i > Len(games)
    /\ \E made \in BOOLEAN :
          IF made
          THEN cardsDir' = TRUE /\ pc' = "card" /\ UNCHANGED exitCode
          ELSE Exit1 /\ UNCHANGED cardsDir
    /\ UNCHANGED <<inputVars, resolveVars, idx, card_paths, tmpFiles,
                   cardFiles, toolLog, pageVars>>

\* the card loop calls generate_game_card(image_path, card_path), whose
\* first step is the resize: on failure the except clause reports it and
\* the call returns; then card_paths.append(card_path)
CardResize ==
    /\ pc = "card"
    /\ idx <= Len(complete_games)
    /\ \E ok \in Outcomes :
          /\ toolLog' = Append(toolLog, [tool |-> "resize", target |-> idx, ok |-> ok,
                                           src |-> complete_games[idx].image_path,
                                           out |-> TempPath(CardPath(idx))])
          /\ IF ok
             THEN /\ tmpFiles' = tmpFiles \cup {TempPath(CardPath(idx))}
                  /\ pc' = "composite"
                  /\ UNCHANGED <<idx, card_paths>>
             ELSE /\ card_paths' = Append(card_paths, CardPath(idx))
                  /\ idx' = idx + 1
                  /\ UNCHANGED <<pc, tmpFiles>>
    /\ UNCHANGED <<exitCode, inputVars, resolveVars, cardsDir, cardFiles, pageVars>>

\* generate_game_card: the composite step, then os.remove(temp_scaled),
\* which removes the file or raises; on any failure the except clause
\* reports it; then card_paths.append(card_path)
CardComposite ==
    /\ pc = "composite"
    /\ \E ok \in Outcomes, removed \in BOOLEAN :
          /\ toolLog' = Append(toolLog, [tool |-> "composite", target |-> idx, ok |-> ok,
                                           src |-> TempPath(CardPath(idx)),
                                           out |-> CardPath(idx)])
          /\ IF ok
             THEN /\ cardFiles' = cardFiles \cup {CardPath(idx)}
                  /\ tmpFiles' = IF removed THEN tmpFiles \ {TempPath(CardPath(idx))}
                                            ELSE tmpFiles
             ELSE UNCHANGED <<cardFiles, tmpFiles>>
    /\ card_paths' = Append(card_paths, CardPath(idx))
    /\ idx' = idx + 1
    /\ pc' = "card"
    /\ UNCHANGED <<exitCode, inputVars, resolveVars, cardsDir, pageVars>>

\* list_games: the card loop is over; combine_cards_to_a4(card_paths,
\* system_name) is called
CallCombine ==
    /\ pc = "card"
    /\ idx > Len(complete_games)
    /\ pc' = "combine"
    /\ UNCHANGED <<exitCode, inputVars, resolveVars, cardVars, pageVars>>

\* combine_cards_to_a4: the geometry and page_count
CombineBegin ==
    /\ pc = "combine"
    /\ page_count' = PageCount(card_paths)
    /\ page' = 0
    /\ pc' = "page"
    /\ UNCHANGED <<exitCode, inputVars, resolveVars, cardVars, pageFiles, pages>>

\* combine_cards_to_a4: one iteration of "for page in range(page_count)"
PageRender ==
    /\ pc = "page"
    /\ page < page_count
    /\ LET cmd == PageCommand(card_paths, system_name, page)
       IN  /\ pages' = Append(pages, cmd)
           /\ \E ok \in Outcomes :
                 /\ toolLog' = Append(toolLog, [tool |-> "page", target |-> page + 1, ok |-> ok,
                                                  src |-> cmd.places, out |-> cmd.out])
                 /\ pageFiles' = IF ok THEN pageFiles \cup {cmd.out} ELSE pageFiles
    /\ page' = page + 1
    /\ UNCHANGED <<pc, exitCode, inputVars, resolveVars, cardsDir, idx, card_paths,
                   tmpFiles, cardFiles, page_count>>

\* combine_cards_to_a4: the page loop is over, the function returns
CombineReturn ==
    /\ pc = "page"
    /\ page >= page_count
    /\ pc' = "summary"
    /\ UNCHANGED <<exitCode, inputVars, resolveVars, cardVars, pageVars>>

\* list_games prints the summary and returns; main returns
Summary ==
    /\ pc = "summary"
    /\ pc' = "exit"
    /\ exitCode' = 0
    /\ UNCHANGED <<inputVars, resolveVars, cardVars, pageVars>>

Next ==
    \/ Main
    \/ CheckDir
    \/ CheckGamelist
    \/ ParseGames
    \/ ResolveStep
    \/ MakeCardsDir
    \/ CardResize
    \/ CardComposite
    \/ CallCombine
    \/ CombineBegin
    \/ PageRender
    \/ CombineReturn
    \/ Summary

Spec == Init /\ [][Next]_vars

-----------------------------------------------------------------------------
(* combine_cards_to_a4 on its own: a call with a list of 0..MaxCards card *)
(* paths, the cards being on disk                                         *)

InitPages ==
    /\ \E m \in 0..MaxCards :
          /\ card_paths = [k \in 1..m |-> CardPath(k)]
          /\ cardFiles = {CardPath(k) : k \in 1..m}
    /\ pc = "combine"
    /\ argGiven = TRUE
    /\ dirExists = TRUE
    /\ gamelistExists = TRUE
    /\ xml = [wellformed |-> TRUE, elems |-> <<>>]
    /\ files = {}
    /\ toolsOnPath = TRUE
    /\ games = <<>>
    /\ complete_games = <<>>
    /\ i = 1
    /\ checked = <<>>
    /\ cardsDir = TRUE
    /\ idx = 1
    /\ tmpFiles = {}
    /\ pageFiles = {}
    /\ toolLog = <<>>
    /\ page_count = 0
    /\ page = 0
    /\ pages = <<>>
    /\ exitCode = -1

NextPages ==
    \/ CombineBegin
    \/ PageRender
    \/ CombineReturn

SpecPages == InitPages /\ [][NextPages]_vars

-----------------------------------------------------------------------------
(* Vocabulary of the properties *)

\* the games the resolve loop has dealt with
Processed == IF pc \in {"main", "check_dir", "check_gamelist", "parse"}
             THEN {} ELSE 1..(i - 1)

\* game k was appended to complete_games (the inputs give every game its own id)
Retained(k) == \E j \in 1..Len(complete_games) : complete_games[j].id = games[k].id

\* the reference resolves to a file that exists; the path it resolves to
Resolves(ref) == check_file_exists(files, game_system_path, ref).exists
ResolvedPath(ref) == check_file_exists(files, game_system_path, ref).full_path

MarqueeOk(g) == g.marquee # <<>> /\ Resolves(g.marquee)
ImageOk(g) == g.image # <<>> /\ Resolves(g.image)
\* the file name of the thumbnail reference contains "thumb", whatever the case
ThumbOk(g) == /\ Contains(Lower(Basename(g.thumbnail)), thumb)
              /\ Resolves(g.thumbnail)
\* the thumbnail reference as a whole contains "thumb", whatever the case
ThumbRefOk(g) == /\ Contains(Lower(g.thumbnail), thumb)
                 /\ Resolves(g.thumbnail)

\* the run ended normally
Finished == pc = "exit" /\ exitCode = 0

\* combine_cards_to_a4 has returned
Combined == pc = "summary" \/ Finished

\* the least number of pages of 9 that hold m cards
LeastPages(m) == CHOOSE n \in 0..m : 9 * n >= m /\ \A l \in 0..(n - 1) : 9 * l < m

\* the tool calls of one kind for one card or page
Calls(tool, t) == {k \in 1..Len(toolLog) : toolLog[k].tool = tool /\ toolLog[k].target = t}

\* generation of card k failed: its resize or its composite step did
CardFailed(k) ==
    \E n \in 1..Len(toolLog) :
        /\ toolLog[n].tool \in {"resize", "composite"}
        /\ toolLog[n].target = k
        /\ ~toolLog[n].ok

\* generate_game_card has returned for card k
Returned(k) == k <= Len(card_paths)

CardNames ==
    <<"card_0001.png", "card_0002.png", "card_0003.png", "card_0004.png",
      "card_0005.png", "card_0006.png", "card_0007.png", "card_0008.png",
      "card_0009.png", "card_0010.png", "card_0011.png", "card_0012.png",
      "card_0013.png", "card_0014.png", "card_0015.png", "card_0016.png">>

-----------------------------------------------------------------------------
(* C1 *)

\* C1, as stated: a game is retained iff its marquee reference is non-empty
\* and resolves to an existing file, and either its thumbnail reference
\* contains "thumb" (case-insensitively) and resolves to an existing file, or
\* its image reference is non-empty and resolves to an existing file.
C1_AsStated ==
    \A k \in Processed :
        Retained(k) <=> (MarqueeOk(games[k]) /\ (ThumbRefOk(games[k]) \/ ImageOk(games[k])))

\* C1, amended: a game is retained iff its marquee reference is non-empty
\* and resolves to an existing file, and either the file name (the last
\* component) of its thumbnail reference contains "thumb" (case-insensitively)
\* and the reference resolves to an existing file, or its image reference is
\* non-empty and resolves to an existing file.
C1_RetainedIff ==
    \A k \in Processed :
        Retained(k) <=> (MarqueeOk(games[k]) /\ (ThumbOk(games[k]) \/ ImageOk(games[k])))

\* a game kept through a thumbnail named "Thumb", without any image
C1_Witness ==
    /\ 1 \in Processed
    /\ games[1].thumbnail = Ref_Thumb
    /\ games[1].image = <<>>
    /\ File_Thumb \in files
    /\ games[1].marquee = Ref_up_m
    /\ Retained(1)

-----------------------------------------------------------------------------
(* C2 *)

\* C2, as stated: when the thumbnail reference is present, contains
\* "thumb" (case-insensitively) and resolves to an existing file, a retained
\* game's image_path is the resolved thumbnail, even if the image exists too;
\* otherwise it is the resolved image, which is then non-empty and exists;
\* and a game whose thumbnail fails that test is still retained through its
\* image when the image and the marquee are there.
C2_AsStated ==
    /\ \A j \in 1..Len(complete_games) :
          LET g == complete_games[j]
          IN  IF ThumbRefOk(g)
              THEN g.image_path = ResolvedPath(g.thumbnail)
              ELSE ImageOk(g) /\ g.image_path = ResolvedPath(g.image)
    /\ \A k \in Processed :
          (~ThumbRefOk(games[k]) /\ ImageOk(games[k]) /\ MarqueeOk(games[k]))
              => Retained(k)

\* C2, amended: when the file name (the last component) of the thumbnail
\* reference contains "thumb" (case-insensitively) and the reference resolves
\* to an existing file, a retained game's image_path is the resolved
\* thumbnail, even if the image exists too; otherwise (a thumbnail such as
\* ./thumbs/a included, whose file exists) it is the resolved image, which is
\* then non-empty and exists; and a game whose thumbnail fails that test is
\* still retained through its image when the image and the marquee are there.
C2_ThumbnailPriority ==
    /\ \A j \in 1..Len(complete_games) :
          LET g == complete_games[j]
          IN  IF ThumbOk(g)
              THEN g.image_path = ResolvedPath(g.thumbnail)
              ELSE ImageOk(g) /\ g.image_path = ResolvedPath(g.image)
    /\ \A k \in Processed :
          (~ThumbOk(games[k]) /\ ImageOk(games[k]) /\ MarqueeOk(games[k]))
              => Retained(k)

\* thumbnail and image both exist, and the thumbnail was chosen
C2_Witness ==
    /\ Len(complete_games) = 1
    /\ complete_games[1].thumbnail = Ref_up_thumb
    /\ complete_games[1].image = Ref_a
    /\ {File_thumb, File_a} \subseteq files
    /\ complete_games[1].image_path = File_thumb

-----------------------------------------------------------------------------
(* C3 *)

\* C3: ceil(M/9) pages are attempted, each exactly once whatever renders
\* fail (none for M = 0); page p holds the cards at positions
\* 9(p-1)+1 .. min(9p, M) of the input, in order; the card at 0-based
\* position k of its page is placed in column k mod 3 and row k div 3; a
\* partial last page composites its own cards only.
C3_Pagination ==
    LET M == Len(card_paths)
    IN  /\ Len(pages) <= LeastPages(M)
        /\ Combined => Len(pages) = LeastPages(M)
        /\ \A p \in 1..Len(pages) :
              LET first == 9 * (p - 1) + 1
                  last  == Min(9 * p, M)
                  pl    == pages[p].places
              IN  /\ Cardinality(Calls("page", p)) = 1
                  /\ Len(pl) = last - first + 1
                  /\ \A k \in 1..Len(pl) :
                        /\ pl[k].card = card_paths[first + k - 1]
                        /\ pl[k].x = margin_x + ((k - 1) % 3) * (card_w + margin_x)
                        /\ pl[k].y = margin_y + ((k - 1) \div 3) * (card_h + margin_y)

\* ten cards: a full first page, whose render failed, and a second page
\* with one card
C3_Witness ==
    /\ Combined
    /\ Len(card_paths) = 10
    /\ Len(pages) = 2
    /\ Len(pages[1].places) = 9
    /\ Len(pages[2].places) = 1
    /\ pages[2].places[1].x = margin_x
    /\ pages[2].places[1].y = margin_y
    /\ \E n \in 1..Len(toolLog) : toolLog[n].target = 1 /\ ~toolLog[n].ok

-----------------------------------------------------------------------------
(* C4 *)

\* the gap right of a card placed in the last column, below one in the last row
TrailingGapX(pl) == a4_width - (pl.x + card_w)
TrailingGapY(pl) == a4_height - (pl.y + card_h)
InLastColumn(pl) == pl.x = margin_x + (grid_cols - 1) * (card_w + margin_x)
InLastRow(pl) == pl.y = margin_y + (grid_rows - 1) * (card_h + margin_y)

\* C4, as stated: margin_x*(cols+1) + cols*card_w is the canvas width and
\* margin_y*(rows+1) + rows*card_h is the canvas height, so that the gap after
\* the last column and the gap after the last row equal the margins.
C4_AsStated ==
    \A p \in 1..Len(pages) :
        /\ margin_x * (grid_cols + 1) + grid_cols * card_w = a4_width
        /\ margin_y * (grid_rows + 1) + grid_rows * card_h = a4_height
        /\ \A k \in 1..Len(pages[p].places) :
              LET pl == pages[p].places[k]
              IN  /\ InLastColumn(pl) => TrailingGapX(pl) = margin_x
                  /\ InLastRow(pl) => TrailingGapY(pl) = margin_y

\* C4, amended: the row equation holds exactly (4*118 + 3*1012 = 3508); the
\* column equation falls 2 short of the canvas width (4*141 + 3*638 = 2478),
\* so the gap after the last column is the margin plus 2.
C4_Margins ==
    \A p \in 1..Len(pages) :
        /\ margin_x * (grid_cols + 1) + grid_cols * card_w = a4_width - 2
        /\ margin_y * (grid_rows + 1) + grid_rows * card_h = a4_height
        /\ \A k \in 1..Len(pages[p].places) :
              LET pl == pages[p].places[k]
              IN  /\ InLastColumn(pl) => TrailingGapX(pl) = margin_x + 2
                  /\ InLastRow(pl) => TrailingGapY(pl) = margin_y

\* a page whose grid is full, its last card in the last column and row
C4_Witness ==
    /\ Len(pages) >= 1
    /\ Len(pages[1].places) = 9
    /\ InLastColumn(pages[1].places[9])
    /\ InLastRow(pages[1].places[9])

-----------------------------------------------------------------------------
(* C5 *)

\* C5: once generate_game_card has returned for a card whose resize step
\* succeeded, the scaled intermediate file is gone, whether the composite
\* step succeeded or failed.
C5_TempRemoved ==
    \A n \in 1..Len(toolLog) :
        (toolLog[n].tool = "resize" /\ toolLog[n].ok /\ Returned(toolLog[n].target))
            => toolLog[n].out \notin tmpFiles

-----------------------------------------------------------------------------
(* C6 *)

\* the system folder or the catalog is absent, or the catalog does not
\* parse, or it holds no game
Fatal == \/ ~dirExists
         \/ ~gamelistExists
         \/ ~xml.wellformed
         \/ xml.elems = <<>>

\* C6: on such a run nothing is output: the cards directory is not created,
\* no tool is called, and the run ends with exit status 1.
C6_FatalBeforeOutput ==
    Fatal => /\ ~cardsDir
             /\ toolLog = <<>>
             /\ card_paths = <<>>
             /\ pages = <<>>
             /\ cardFiles = {} /\ tmpFiles = {} /\ pageFiles = {}
             /\ pc \in {"main", "check_dir", "check_gamelist", "parse", "exit"}
             /\ pc = "exit" => exitCode = 1

\* the run on an empty catalog has ended
C6_Witness ==
    /\ argGiven /\ dirExists /\ gamelistExists /\ xml.wellformed
    /\ xml.elems = <<>>
    /\ pc = "exit"
    /\ exitCode = 1

-----------------------------------------------------------------------------
(* C7 *)

\* each tool call is made once, a composite only after its resize
\* succeeded, a page only after every card was attempted
CallsInOrder ==
    LET M == Len(complete_games)
    IN  \A n \in 1..Len(toolLog) :
            LET e == toolLog[n]
            IN  /\ Cardinality(Calls(e.tool, e.target)) = 1
                /\ e.tool \in {"resize", "composite"} => e.target \in 1..M
                /\ e.tool = "composite" =>
                      \E r \in 1..(n - 1) :
                          /\ toolLog[r].tool = "resize"
                          /\ toolLog[r].target = e.target
                          /\ toolLog[r].ok
                /\ e.tool = "page" =>
                      /\ e.target \in 1..LeastPages(M)
                      /\ \A k \in 1..M : \E r \in 1..(n - 1) :
                            toolLog[r].tool = "resize" /\ toolLog[r].target = k
                      /\ \A r \in (n + 1)..Len(toolLog) : toolLog[r].tool = "page"

\* every retained record's card and every page has been attempted once
AllAttempted ==
    LET M == Len(complete_games)
    IN  /\ \A k \in 1..M : Cardinality(Calls("resize", k)) = 1
        /\ \A p \in 1..LeastPages(M) : Cardinality(Calls("page", p)) = 1

\* the run got past catalog reading: the catalog was read and held a game
PastCatalogReading == games # <<>>

\* C7: in every run that gets past catalog reading, whatever tool calls
\* fail, by the end of the run card generation was attempted exactly once
\* for each retained record (no step is repeated, no failure ends the run),
\* no page was rendered before every card was attempted, and each of the
\* ceil(M/9) pages was rendered exactly once.  A run without retained
\* records satisfies it with no call at all.
C7_EveryItemOnce ==
    /\ CallsInOrder
    /\ (pc = "exit" /\ PastCatalogReading) => AllAttempted

\* what the code does keep: once os.makedirs has returned, no tool failure
\* ends the run, and it ends with every card and page attempted once; when
\* os.makedirs raises, the run ends with exit status 1 and without a call
AfterMakedirs ==
    /\ CallsInOrder
    /\ (pc = "exit" /\ cardsDir) => (exitCode = 0 /\ AllAttempted)
    /\ (pc = "exit" /\ PastCatalogReading /\ ~cardsDir) =>
          (exitCode = 1 /\ toolLog = <<>>)

\* a run with a retained record that ended in os.makedirs, before any call
MakedirsRaised ==
    /\ pc = "exit"
    /\ Len(complete_games) >= 1
    /\ ~cardsDir
    /\ toolLog = <<>>

\* a run of ten cards on which every call failed: two pages were attempted
TwoPagesAttempted ==
    /\ Finished
    /\ Len(complete_games) = 10
    /\ \A n \in 1..Len(toolLog) : ~toolLog[n].ok
    /\ Cardinality(Calls("page", 1)) = 1
    /\ Cardinality(Calls("page", 2)) = 1

-----------------------------------------------------------------------------
(* C8 *)

\* C8: a card whose generation failed is skipped: its path is not handed to
\* page assembly and is placed on no page.
C8_FailedCardSkipped ==
    \A k \in 1..Len(complete_games) :
        (CardFailed(k) /\ Returned(k)) =>
            /\ \A n \in 1..Len(card_paths) : card_paths[n] # CardPath(k)
            /\ \A p \in 1..Len(pages) : \A n \in 1..Len(pages[p].places) :
                  pages[p].places[n].card # CardPath(k)

-----------------------------------------------------------------------------
(* C9 *)

\* the place of a retained game in the catalog
CatalogIndex(g) == CHOOSE k \in 1..Len(games) : games[k].id = g.id

\* C9: the retained records keep catalog order; the k-th of them gets the
\* file card_%04d.png of k, counted from 1 without gaps; the card paths
\* handed to page assembly are in that order.
C9_OrderAndNames ==
    /\ \A j \in 1..(Len(complete_games) - 1) :
          CatalogIndex(complete_games[j]) < CatalogIndex(complete_games[j + 1])
    /\ Len(card_paths) <= Len(complete_games)
    /\ Finished => Len(card_paths) = Len(complete_games)
    /\ \A k \in 1..Len(card_paths) : card_paths[k].file = CardNames[k]
    /\ \A n \in 1..Len(toolLog) :
          LET e == toolLog[n]
          IN  /\ e.tool = "resize" =>
                    /\ e.src = complete_games[e.target].image_path
                    /\ e.out.file = CardNames[e.target] \o ".tmp.png"
              /\ e.tool = "composite" => e.out.file = CardNames[e.target]

\* five games, the third excluded: the fourth retained one is the fifth of
\* the catalog and gets card_0004.png
C9_Witness ==
    /\ Finished
    /\ Len(games) = 5
    /\ Len(complete_games) = 4
    /\ ~Retained(3)
    /\ complete_games[3].id = "4"
    /\ complete_games[4].id = "5"
    /\ card_paths[3].file = "card_0003.png"
    /\ card_paths[4].file = "card_0004.png"

-----------------------------------------------------------------------------
(* C10 *)

\* a single leading "./" removed, when there is one
StripDotSlash(s) ==
    IF Len(s) >= 2 /\ s[1] = "." /\ s[2] = "/" THEN SubSeq(s, 3, Len(s)) ELSE s

\* C10: check_file_exists joins the base directory with the reference minus
\* one leading "./", and with the reference unchanged when it does not start
\* with "./".
C10_StripsOnlyDotSlash ==
    \A n \in 1..Len(checked) :
        checked[n].full_path =
            OsPathJoin(game_system_path, StripDotSlash(checked[n].file_path))

====
